---- MODULE Spec2Model ----
(***************************************************************************)
(* Mileage calculator (app.py): the trip ledger kept in data/trips.json,   *)
(* the create-trip pipeline of POST /mileage (rate lookup, distance        *)
(* resolution through OpenRouteService, validation, reimbursement) and the *)
(* cost amendment of POST /costs.                                          *)
(*                                                                         *)
(* Numbers.  Python floats are modelled in fixed point, with one extra     *)
(* value for NaN: a float is [nan, v], v an integer.  Miles are counted in *)
(* thousandths of a mile, the rate in hundredths of a dollar per mile, so  *)
(* miles * rate is in 1/100000 dollar.  round(x, 2) rounds miles to a      *)
(* multiple of 10 and money to a multiple of 1000, ties to even.           *)
(* Text.  A form text field is a sequence of one-character strings.        *)
(* created_at is the clock reading `now`: isoformat() + "Z" is injective   *)
(* on instants and the code only compares the strings for equality.        *)
(***************************************************************************)
EXTENDS Integers, Sequences, FiniteSets, TLC

VARIABLES
    orsKey,     \* ORS_API_KEY is set (read once at start-up, line 26)
    file,       \* data/trips.json: [kind, trips]
    now,        \* the clock datetime.utcnow() reads
    req,        \* the request the last handler served
    resp,       \* the response the last handler gave
    inflight,   \* threaded server: per worker, the request between its read and its write
    ideal,      \* history: the ledger with every reported change applied in commit order
    overlapped  \* history: some request read the ledger while another was in flight

vars == <<orsKey, file, now, req, resp, inflight, ideal, overlapped>>

\* ------------------------------------------------------------------ bounds

MaxClock == 1
MaxTrips == 2
MaxTickets == 2
MaxStops == 1

\* ------------------------------------------------------- program constants

DEFAULT_IRS_BUSINESS_RATE == 70
StopSlots == 5
\* 1609.344 metres to the mile, counted per thousand miles
MetersPerKiloMile == 1609344

\* ------------------------------------------------------------------ floats

F(n) == [nan |-> FALSE, v |-> n]
NaN == [nan |-> TRUE, v |-> 0]

FAdd(a, b) == IF a.nan \/ b.nan THEN NaN ELSE F(a.v + b.v)
FScale(a, k) == IF a.nan THEN NaN ELSE F(a.v * k)
\* x <= 0 on floats: every comparison with NaN is False
FLeZero(a) == ~a.nan /\ a.v <= 0

RoundHalfEven(n, unit) ==
    LET q == n \div unit
        r == n % unit
    IN  IF 2 * r < unit THEN q * unit
        ELSE IF 2 * r > unit THEN (q + 1) * unit
        ELSE IF q % 2 = 0 THEN q * unit ELSE (q + 1) * unit

\* round(x, 2) of a value counted in 1/(100*unit)
Round2(a, unit) == IF a.nan THEN NaN ELSE F(RoundHalfEven(a.v, unit))

\* -------------------------------------------------------------- form input

SP == " "
RECURSIVE LStrip(_)
LStrip(s) == IF s # <<>> /\ Head(s) = SP THEN LStrip(Tail(s)) ELSE s
RECURSIVE RStrip(_)
RStrip(s) ==
    IF s # <<>> /\ s[Len(s)] = SP THEN RStrip(SubSeq(s, 1, Len(s) - 1)) ELSE s
Strip(s) == RStrip(LStrip(s))

\* request.form.get(name, default) of a field the form may lack
Absent == "(absent)"
FormGet(v, default) == IF v = Absent THEN default ELSE v

\* A numeric form field as submitted: absent, text float() rejects, "nan",
\* or the decimal text of the number v
RawAbsent == [t |-> "absent", v |-> 0]
RawText == [t |-> "text", v |-> 0]
RawNaN == [t |-> "nan", v |-> 0]
RawNum(n) == [t |-> "num", v |-> n]

SafeFloat(val) ==
    CASE val.t = "num" -> F(val.v)
      [] val.t = "nan" -> NaN
      [] OTHER -> F(0)

\* ------------------------------------------------------------ trip ledger

Missing == [kind |-> "missing", trips |-> <<>>]
\* text that is not JSON
Unparseable == [kind |-> "unparseable", trips |-> <<>>]
\* bytes that are not UTF-8
Undecodable == [kind |-> "undecodable", trips |-> <<>>]

\* The result of a call: raised, or returned trips
ReadTrips(f) ==
    CASE f.kind = "missing" -> [raised |-> FALSE, trips |-> <<>>]
      [] f.kind = "undecodable" -> [raised |-> TRUE, trips |-> <<>>]
      [] f.kind = "unparseable" -> [raised |-> FALSE, trips |-> <<>>]
      [] OTHER -> [raised |-> FALSE, trips |-> f.trips]

WriteTrips(trips) == [kind |-> "json", trips |-> trips]

\* Faulty variant: trips.insert(0, trip), the new trip put first
PrependTrip(trips, trip) == <<trip>> \o trips

\* Faulty variant: trips = [trip], the loaded collection dropped
AppendTripAlone(trips, trip) == <<trip>>

\* trips.append(trip)
AppendTrip(trips, trip) == Append(trips, trip)

\* -------------------------------------------------------------- rate lookup

\* page: what the request for the IRS page gives: t = "error" (it failed),
\* "nomatch" (the wording changed) or "cents" (the page states `cents`)
FetchIrsBusinessRate(page) ==
    IF page.t = "cents" THEN page.cents ELSE DEFAULT_IRS_BUSINESS_RATE

\* ------------------------------------------------------ distance resolution

\* One geocode answer of the service: "coords", "nomatch" or "error"
GeocodeOrs(key, g) ==
    IF ~key THEN [raised |-> FALSE, none |-> TRUE]
    ELSE IF g = "error" THEN [raised |-> TRUE, none |-> TRUE]
    ELSE IF g = "nomatch" THEN [raised |-> FALSE, none |-> TRUE]
    ELSE [raised |-> FALSE, none |-> FALSE]

\* meters / 1609.344 in thousandths of a mile, the fraction reduced by 64 to
\* stay within 32-bit integers
MetersToMiles(m) == (m * (1000000 \div 64)) \div (MetersPerKiloMile \div 64)

\* ans = [gs, ge, route, meters]: what the service answers for this leg
DrivingDistanceMilesOrs(key, ans) ==
    LET start == GeocodeOrs(key, ans.gs)
        end == GeocodeOrs(key, ans.ge)
        None == [raised |-> FALSE, none |-> TRUE, miles |-> 0]
        Raise == [raised |-> TRUE, none |-> TRUE, miles |-> 0]
    IN  IF ~key THEN None
        ELSE IF start.raised \/ end.raised THEN Raise
        ELSE IF start.none \/ end.none THEN None
        ELSE IF ans.route = "error" THEN Raise
        ELSE [raised |-> FALSE, none |-> FALSE, miles |-> MetersToMiles(ans.meters)]

\* The answers the service gives while the legs loop runs over n legs: the
\* loop stops at the first leg that fails, and asks nothing after it
RECURSIVE AnswerSeqs(_, _, _)
AnswerSeqs(n, ok, fail) ==
    IF n = 0 THEN {<<>>}
    ELSE {<<f>> : f \in fail}
         \cup {<<a>> \o rest : a \in ok, rest \in AnswerSeqs(n - 1, ok, fail)}

\* --------------------------------------------------------- POST /mileage

StopEntry(form, i) ==
    [address |-> Strip(form.stops[i].address),
     datetime |-> Strip(form.stops[i].datetime)]

Stops(form) ==
    SelectSeq([i \in 1..StopSlots |-> StopEntry(form, i)],
              LAMBDA s : s.address # <<>> \/ s.datetime # <<>>)

StopAddresses(stops) ==
    LET withAddr == SelectSeq(stops, LAMBDA s : s.address # <<>>)
    IN  [i \in 1..Len(withAddr) |-> withAddr[i].address]

Points(start, stops, end) == <<start>> \o StopAddresses(stops) \o <<end>>

\* The loop over zip(points, points[1:]), from leg i on
RECURSIVE RouteLegs(_, _, _, _, _, _)
RouteLegs(key, points, answers, i, total, detail) ==
    IF i >= Len(points)
    THEN [raised |-> FALSE, ok |-> TRUE, total |-> total, detail |-> detail]
    ELSE LET d == DrivingDistanceMilesOrs(key, answers[i])
         IN  IF d.raised
             THEN [raised |-> TRUE, ok |-> FALSE, total |-> total, detail |-> detail]
             ELSE IF d.none
             THEN [raised |-> FALSE, ok |-> FALSE, total |-> total, detail |-> detail]
             ELSE RouteLegs(key, points, answers, i + 1, total + d.miles,
                            Append(detail, [from |-> points[i], to |-> points[i + 1],
                                            miles |-> d.miles]))

UsesOrs(key, form) ==
    key /\ Strip(form.start_address) # <<>> /\ Strip(form.end_address) # <<>>

\* Faulty variant: the round trip doubled from the rounded one-way miles
TotalMilesFromRounded(trip_type, one_way_miles) ==
    IF trip_type = "roundtrip" THEN FScale(Round2(one_way_miles, 10), 2)
    ELSE one_way_miles

\* total_miles from one_way_miles and trip_type
TotalMiles(trip_type, one_way_miles) ==
    IF trip_type = "roundtrip" THEN FScale(one_way_miles, 2) ELSE one_way_miles

NewCosts == [gas |-> F(0), food |-> F(0), tolls |-> F(0), tickets |-> <<>>]

\* What the handler has decided when it reaches the ledger: kind = "raise"
\* (an exception left the legs loop), "reject_address", "reject_miles", or
\* "trip" with the trip to append
MileageOutcome(key, form, page, answers, clock) ==
    LET rate == FetchIrsBusinessRate(page)
        trip_type == FormGet(form.trip_type, "one_way")
        start_address == Strip(form.start_address)
        end_address == Strip(form.end_address)
        stops == Stops(form)
        manual_one_way_miles == SafeFloat(form.manual_one_way_miles)
        manual_stop_miles == SafeFloat(form.manual_stop_miles)
        points == Points(start_address, stops, end_address)
        legs == IF UsesOrs(key, form)
                THEN RouteLegs(key, points, answers, 1, 0, <<>>)
                ELSE [raised |-> FALSE, ok |-> FALSE, total |-> 0, detail |-> <<>>]
        computed == legs.ok
        one_way_miles ==
            FAdd(IF computed THEN F(legs.total) ELSE manual_one_way_miles,
                 manual_stop_miles)
        total_miles == TotalMiles(trip_type, one_way_miles)
        reimbursement == FScale(total_miles, rate)
        NoTrip == <<>>
    IN  IF legs.raised THEN [kind |-> "raise", trip |-> NoTrip]
        ELSE IF start_address = <<>> \/ end_address = <<>>
        THEN [kind |-> "reject_address", trip |-> NoTrip]
        ELSE IF FLeZero(one_way_miles)
        THEN [kind |-> "reject_miles", trip |-> NoTrip]
        ELSE [kind |-> "trip",
              trip |-> [created_at |-> clock,
                        trip_type |-> trip_type,
                        start_address |-> start_address,
                        end_address |-> end_address,
                        start_datetime |-> Strip(form.start_datetime),
                        arrival_datetime |-> Strip(form.arrival_datetime),
                        stops |-> stops,
                        irs_business_rate |-> rate,
                        one_way_miles |-> Round2(one_way_miles, 10),
                        total_miles |-> Round2(total_miles, 10),
                        reimbursement |-> Round2(reimbursement, 1000),
                        distance_source |->
                            IF computed THEN "openrouteservice" ELSE "manual",
                        distance_legs |-> legs.detail,
                        costs |-> NewCosts]]

\* -------------------------------------------------------------- POST /costs

Citation(form) ==
    [state |-> Strip(form.ticket_state),
     county |-> Strip(form.ticket_county),
     department |-> Strip(form.ticket_department),
     citing_officer |-> Strip(form.ticket_officer),
     ticket_number |-> Strip(form.ticket_number)]

\* any([t_state, t_county, t_dept, t_officer, t_number])
AnyField(c) ==
    \/ c.state # <<>>
    \/ c.county # <<>>
    \/ c.department # <<>>
    \/ c.citing_officer # <<>>
    \/ c.ticket_number # <<>>

\* Faulty variant: gas, food and tolls added to what the trip holds
AmendTripAdditive(trip, form) ==
    LET c == Citation(form)
    IN  [trip EXCEPT
            !.costs.gas = FAdd(@, SafeFloat(form.gas)),
            !.costs.food = FAdd(@, SafeFloat(form.food)),
            !.costs.tolls = FAdd(@, SafeFloat(form.tolls)),
            !.costs.tickets = IF AnyField(c) THEN Append(@, c) ELSE @]

\* The body of the loop for the trip that matches
AmendTrip(trip, form) ==
    LET c == Citation(form)
    IN  [trip EXCEPT
            !.costs.gas = SafeFloat(form.gas),
            !.costs.food = SafeFloat(form.food),
            !.costs.tolls = SafeFloat(form.tolls),
            !.costs.tickets = IF AnyField(c) THEN Append(@, c) ELSE @]

\* Faulty variant: the loop without its break, so the last match is the one amended
MatchIndexLast(trips, created_at) ==
    LET hits == {i \in 1..Len(trips) : trips[i].created_at = created_at}
    IN  IF hits = {} THEN 0 ELSE CHOOSE i \in hits : \A j \in hits : i >= j

\* The index the loop stops at: the first trip with this created_at, 0 if none
MatchIndex(trips, created_at) ==
    LET hits == {i \in 1..Len(trips) : trips[i].created_at = created_at}
    IN  IF hits = {} THEN 0 ELSE CHOOSE i \in hits : \A j \in hits : i <= j

\* The for loop of costs(): [updated, trips]
Amend(trips, form) ==
    LET i == MatchIndex(trips, form.created_at)
    IN  IF i = 0 THEN [updated |-> FALSE, trips |-> trips]
        ELSE [updated |-> TRUE,
              trips |-> [trips EXCEPT ![i] = AmendTrip(trips[i], form)]]

\* -------------------------------------------------- requests and responses

NoPage == [t |-> "error", cents |-> 0]
NoReq == [op |-> "none", form |-> <<>>, page |-> NoPage, answers |-> <<>>]
Response(status, flash, body) == [status |-> status, flash |-> flash, body |-> body]
NoResp == Response("none", "", <<>>)
ServerError == Response("500", "", <<>>)

BlankStop == [address |-> <<>>, datetime |-> <<>>]

\* The stop fields a form may carry in slot i
StopFields(i) ==
    IF i > MaxStops THEN {BlankStop}
    ELSE [address : {<<>>, <<"B">>}, datetime : {<<SP>>, <<"t">>}]

\* The submissions of the create-trip pipeline
AllMileageForms ==
    [trip_type : {Absent, "roundtrip", "return"},
     start_address : {<<>>, <<SP>>, <<SP, "A">>},
     end_address : {<<>>, <<"C", SP>>},
     start_datetime : {<<"t", SP>>},
     arrival_datetime : {<<>>},
     stops : {f \in [1..StopSlots -> UNION {StopFields(i) : i \in 1..StopSlots}] :
                \A i \in 1..StopSlots : f[i] \in StopFields(i)},
     manual_one_way_miles :
        {RawAbsent, RawText, RawNaN, RawNum(-2000), RawNum(0), RawNum(1005),
         RawNum(10000)},
     manual_stop_miles : {RawAbsent, RawNum(1500), RawNum(-10000)}]

AllPages == {[t |-> "error", cents |-> 0], [t |-> "nomatch", cents |-> 0],
             [t |-> "cents", cents |-> 67]}

Geocodes == {"coords", "nomatch", "error"}
OkAnswers(meters) ==
    [gs : {"coords"}, ge : {"coords"}, route : {"ok"}, meters : meters]
AllOkAnswers == OkAnswers({8047, 16093})
AllFailAnswers ==
    {a \in [gs : Geocodes, ge : Geocodes, route : {"none"}, meters : {0}] :
        a.gs # "coords" \/ a.ge # "coords"}
    \cup [gs : {"coords"}, ge : {"coords"}, route : {"error"}, meters : {0}]

\* The submissions the ledger is exercised with
LedgerMileageForms ==
    [trip_type : {"roundtrip"},
     start_address : {<<SP, "A">>},
     end_address : {<<>>, <<"C", SP>>},
     start_datetime : {<<"t", SP>>},
     arrival_datetime : {<<>>},
     stops : {[i \in 1..StopSlots |-> BlankStop]},
     manual_one_way_miles : {RawText, RawNum(10000)},
     manual_stop_miles : {RawAbsent}]
LedgerPages == {NoPage}
LedgerOkAnswers == OkAnswers({16093})
LedgerFailAnswers ==
    {[gs |-> "coords", ge |-> "coords", route |-> "error", meters |-> 0]}

CostsForm(key, amounts, ticket) ==
    [created_at |-> key,
     gas |-> amounts[1], food |-> amounts[2], tolls |-> amounts[3],
     ticket_state |-> ticket[1], ticket_county |-> ticket[2],
     ticket_department |-> ticket[3], ticket_officer |-> ticket[4],
     ticket_number |-> ticket[5]]

CostsForms ==
    {CostsForm(key, amounts, ticket) :
        key \in 0..MaxClock,
        amounts \in {<<RawAbsent, RawText, RawNum(0)>>,
                     <<RawNum(4550), RawNum(1200), RawNum(300)>>},
        ticket \in {<<<<SP>>, <<>>, <<>>, <<>>, <<>>>>,
                    <<<<>>, <<>>, <<>>, <<>>, <<"7", SP>>>>,
                    <<<<"T">>, <<>>, <<>>, <<"o">>, <<>>>>}}

\* The submissions the interleaved handlers are exercised with
ConcMileageForms ==
    {f \in LedgerMileageForms : f.manual_one_way_miles = RawNum(10000)}
ConcCostsForms ==
    {CostsForm(key, <<RawNum(4550), RawNum(1200), RawNum(300)>>, ticket) :
        key \in 0..MaxClock,
        ticket \in {<<<<>>, <<>>, <<>>, <<>>, <<"7", SP>>>>}}

\* ------------------------------------------------------------------ state

Workers == {1, 2}
Idle == [pc |-> "idle", snapshot |-> <<>>, change |-> <<>>, done |-> "none"]

Init ==
    /\ orsKey \in BOOLEAN
    /\ file \in {Missing, Unparseable, Undecodable, WriteTrips(<<>>)}
    /\ now = 0
    /\ req = NoReq
    /\ resp = NoResp
    /\ inflight = [w \in Workers |-> Idle]
    /\ ideal = <<>>
    /\ overlapped = FALSE

Tick ==
    /\ now < MaxClock
    /\ now' = now + 1
    /\ UNCHANGED <<orsKey, file, req, resp, inflight, ideal, overlapped>>

RECURSIVE TicketCount(_)
TicketCount(trips) ==
    IF trips = <<>> THEN 0
    ELSE Len(Head(trips).costs.tickets) + TicketCount(Tail(trips))

\* ------------------------------------------- handlers, one request at a time

LegCount(form) ==
    Len(Points(Strip(form.start_address), Stops(form), Strip(form.end_address))) - 1

\* mileage(), request.method == "POST"
MileagePost(forms, pages, ok, fail) ==
    \E form \in forms, page \in pages :
      \E answers \in IF UsesOrs(orsKey, form)
                      THEN AnswerSeqs(LegCount(form), ok, fail) ELSE {<<>>} :
        LET out == MileageOutcome(orsKey, form, page, answers, now)
            rd == ReadTrips(file)
        IN  /\ Len(rd.trips) < MaxTrips
            /\ req' = [op |-> "mileage", form |-> form, page |-> page,
                       answers |-> answers]
            /\ CASE out.kind = "raise" ->
                       /\ resp' = ServerError
                       /\ file' = file
                   [] out.kind = "reject_address" ->
                       /\ resp' = Response("redirect:mileage",
                                           "Start and End address are required.", <<>>)
                       /\ file' = file
                   [] out.kind = "reject_miles" ->
                       /\ resp' = Response("redirect:mileage",
                                           "Miles must be greater than 0", <<>>)
                       /\ file' = file
                   [] OTHER ->
                       IF rd.raised
                       THEN /\ resp' = ServerError
                            /\ file' = file
                       ELSE /\ resp' = Response("redirect:index", "Trip saved.", <<>>)
                            /\ file' = WriteTrips(AppendTrip(rd.trips, out.trip))
            /\ UNCHANGED <<orsKey, now, inflight, ideal, overlapped>>

\* costs(), request.method == "POST"
CostsPost ==
    \E form \in CostsForms :
        LET rd == ReadTrips(file)
            am == Amend(rd.trips, form)
        IN  /\ TicketCount(am.trips) <= MaxTickets
            /\ req' = [op |-> "costs", form |-> form, page |-> NoPage, answers |-> <<>>]
            /\ IF rd.raised
               THEN /\ resp' = ServerError
                    /\ file' = file
               ELSE IF am.updated
               THEN /\ resp' = Response("redirect:costs", "Costs updated.", <<>>)
                    /\ file' = WriteTrips(am.trips)
               ELSE /\ resp' = Response("redirect:costs", "Trip not found.", <<>>)
                    /\ file' = file
            /\ UNCHANGED <<orsKey, now, inflight, ideal, overlapped>>

\* api_trips()
ApiTrips ==
    LET rd == ReadTrips(file)
    IN  /\ req' = [op |-> "api_trips", form |-> <<>>, page |-> NoPage, answers |-> <<>>]
        /\ resp' = IF rd.raised THEN ServerError ELSE Response("200", "", rd.trips)
        /\ UNCHANGED <<orsKey, file, now, inflight, ideal, overlapped>>

LedgerMileagePost ==
    MileagePost(LedgerMileageForms, LedgerPages, LedgerOkAnswers, LedgerFailAnswers)

Next == Tick \/ LedgerMileagePost \/ CostsPost \/ ApiTrips

Spec == Init /\ [][Next]_vars

\* The first submission after start-up, over every form and every answer of
\* the rate page and of the distance service
FirstMileagePost ==
    /\ resp = NoResp
    /\ MileagePost(AllMileageForms, AllPages, AllOkAnswers, AllFailAnswers)

NextPipeline == Tick \/ FirstMileagePost

SpecPipeline == Init /\ [][NextPipeline]_vars

\* ------------------------------- handlers on the threaded server, interleaved
\* Each handler is cut where another thread can run between its read of the
\* ledger and its write: mileage() between lines 211 and 213, costs() between
\* lines 223 and 259.

Busy(w) == inflight[w].pc # "idle"
OthersBusy(w) == \E o \in Workers \ {w} : Busy(o)
Appending == {w \in Workers : inflight[w].pc = "mileage_loaded"}
Citing ==
    {w \in Workers : inflight[w].pc = "costs_loaded"
                     /\ AnyField(Citation(inflight[w].change))}
Finish(w, done) == [inflight EXCEPT ![w] = [Idle EXCEPT !.done = done]]

\* mileage() up to trips = _read_trips()
ConcMileageRead(w) ==
    /\ ~Busy(w)
    /\ Len(ideal) + Cardinality(Appending) < MaxTrips
    /\ \E form \in ConcMileageForms, page \in LedgerPages :
         \E answers \in IF UsesOrs(orsKey, form)
                         THEN AnswerSeqs(LegCount(form), LedgerOkAnswers,
                                         LedgerFailAnswers)
                         ELSE {<<>>} :
           LET out == MileageOutcome(orsKey, form, page, answers, now)
               rd == ReadTrips(file)
           IN  IF out.kind = "raise" THEN
                   /\ inflight' = Finish(w, "500")
                   /\ UNCHANGED overlapped
               ELSE IF out.kind # "trip" THEN
                   /\ inflight' = Finish(w, "rejected")
                   /\ UNCHANGED overlapped
               ELSE IF rd.raised THEN
                   /\ inflight' = Finish(w, "500")
                   /\ UNCHANGED overlapped
               ELSE
                   /\ inflight' = [inflight EXCEPT ![w] =
                         [pc |-> "mileage_loaded", snapshot |-> rd.trips,
                          change |-> out.trip, done |-> "none"]]
                   /\ overlapped' = (overlapped \/ OthersBusy(w))
    /\ UNCHANGED <<orsKey, file, now, req, resp, ideal>>

\* trips.append(trip); _write_trips(trips); flash("Trip saved.")
ConcMileageWrite(w) ==
    /\ inflight[w].pc = "mileage_loaded"
    /\ file' = WriteTrips(AppendTrip(inflight[w].snapshot, inflight[w].change))
    /\ ideal' = Append(ideal, inflight[w].change)
    /\ inflight' = Finish(w, "saved")
    /\ UNCHANGED <<orsKey, now, req, resp, overlapped>>

\* costs() up to the form fields
ConcCostsRead(w) ==
    /\ ~Busy(w)
    /\ \E form \in ConcCostsForms :
         LET rd == ReadTrips(file)
         IN  /\ AnyField(Citation(form)) =>
                  /\ TicketCount(ideal) + Cardinality(Citing) < MaxTickets
                  /\ TicketCount(rd.trips) < MaxTickets
             /\ IF rd.raised THEN
                    /\ inflight' = Finish(w, "500")
                    /\ UNCHANGED overlapped
                ELSE
                    /\ inflight' = [inflight EXCEPT ![w] =
                          [pc |-> "costs_loaded", snapshot |-> rd.trips,
                           change |-> form, done |-> "none"]]
                    /\ overlapped' = (overlapped \/ OthersBusy(w))
    /\ UNCHANGED <<orsKey, file, now, req, resp, ideal>>

\* the for loop, _write_trips(trips) if updated, and the flash
ConcCostsWrite(w) ==
    /\ inflight[w].pc = "costs_loaded"
    /\ LET am == Amend(inflight[w].snapshot, inflight[w].change)
       IN  IF am.updated THEN
               /\ file' = WriteTrips(am.trips)
               /\ ideal' = Amend(ideal, inflight[w].change).trips
               /\ inflight' = Finish(w, "updated")
           ELSE
               /\ inflight' = Finish(w, "notfound")
               /\ UNCHANGED <<file, ideal>>
    /\ UNCHANGED <<orsKey, now, req, resp, overlapped>>

NextConc ==
    \/ Tick
    \/ \E w \in Workers : ConcMileageRead(w)
    \/ \E w \in Workers : ConcMileageWrite(w)
    \/ \E w \in Workers : ConcCostsRead(w)
    \/ \E w \in Workers : ConcCostsWrite(w)

SpecConc == Init /\ [][NextConc]_vars

\* ================================================================= claims

Ledger == ReadTrips(file).trips
Saved == req.op = "mileage" /\ resp.flash = "Trip saved."
NewTrip == file.trips[Len(file.trips)]
\* A step that serves one request of the given kind (only Tick moves the clock,
\* every handler records its request)
StepOf(op) == now' = now /\ req'.op = op

\* Some leg of the last submission failed, whatever the way
SomeLegFailed ==
    /\ req.op = "mileage"
    /\ UsesOrs(orsKey, req.form)
    /\ \E i \in 1..Len(req.answers) : req.answers[i].route # "ok"

\* C1: a persisted trip whose distance did not come from the service has
\* distance_source "manual" and no distance_legs, also when earlier legs
\* succeeded before one failed.
C1_ManualTripHasNoLegs ==
    (Saved /\ (~orsKey \/ SomeLegFailed)) =>
        /\ NewTrip.distance_source = "manual"
        /\ NewTrip.distance_legs = <<>>

\* What a numeric field submits, read off the form without safe_float
Submitted(raw) ==
    IF raw.t = "num" THEN F(raw.v) ELSE IF raw.t = "nan" THEN NaN ELSE F(0)
Positive(x) == ~x.nan /\ x.v > 0

\* C2: every failure of the distance service on a leg ends in the manual
\* path: nothing is raised, and with both addresses and positive manual miles
\* the trip is appended with distance_source "manual" (the ledger being
\* loadable).
C2_LegFailureFallsBackToManual ==
    (SomeLegFailed /\ file.kind # "undecodable") =>
        /\ resp.status # "500"
        /\ Positive(FAdd(Submitted(req.form.manual_one_way_miles),
                         Submitted(req.form.manual_stop_miles)))
             => (Saved /\ NewTrip.distance_source = "manual")

LedgerAfter == ReadTrips(file').trips

\* C3: a successful create-trip leaves the ledger as it was, in the same
\* order, with exactly one trip added at the end.
C3_AppendKeepsEarlierTrips ==
    [][(StepOf("mileage") /\ resp'.flash = "Trip saved.") =>
          /\ Len(LedgerAfter) = Len(Ledger) + 1
          /\ SubSeq(LedgerAfter, 1, Len(Ledger)) = Ledger]_vars

\* A trip was appended behind one whose costs had been amended
C3_Witness ==
    /\ Saved
    /\ Len(file.trips) >= 2
    /\ file.trips[1].costs.tickets # <<>>
    /\ file.trips[1] # NewTrip

\* The submitted created_at is the created_at of no trip of the ledger
NoMatch(trips, form) == \A i \in 1..Len(trips) : trips[i].created_at # form.created_at

\* C4: an amendment whose created_at matches no trip writes nothing and
\* reports "Trip not found.", whatever the store holds.
C4_UnknownKeyLeavesLedger ==
    [][(StepOf("costs") /\ NoMatch(Ledger, req'.form)) =>
          /\ file' = file
          /\ resp'.flash = "Trip not found."]_vars

\* The same, for every store the handler can load
C4_UnknownKeyOnLoadedLedger ==
    [][(StepOf("costs") /\ NoMatch(Ledger, req'.form) /\ file.kind # "undecodable") =>
          /\ file' = file
          /\ resp'.flash = "Trip not found."]_vars

C4_Witness ==
    /\ req.op = "costs"
    /\ resp.flash = "Trip not found."
    /\ Len(Ledger) >= 1

\* The first trip in storage order with the submitted created_at
FirstMatch(trips, form) ==
    CHOOSE i \in 1..Len(trips) :
        /\ trips[i].created_at = form.created_at
        /\ \A j \in 1..(i - 1) : trips[j].created_at # form.created_at

\* C5: a successful amendment replaces gas, food and tolls by the submitted
\* values and appends exactly one citation when a citation field is
\* non-empty (after trimming), none otherwise; earlier citations stay, in
\* order.
C5_AmendReplacesCostsAppendsCitation ==
    [][(StepOf("costs") /\ resp'.flash = "Costs updated.") =>
          LET form == req'.form
              i == FirstMatch(Ledger, form)
              old == Ledger[i].costs
              new == LedgerAfter[i].costs
              c == Citation(form)
          IN  /\ new.gas = Submitted(form.gas)
              /\ new.food = Submitted(form.food)
              /\ new.tolls = Submitted(form.tolls)
              /\ new.tickets = IF \E k \in DOMAIN c : c[k] # <<>>
                               THEN old.tickets \o <<c>> ELSE old.tickets]_vars

\* Two amendments of one trip, each with a citation: two citations in the
\* order submitted, and the amounts of the second amendment
C5_Witness ==
    /\ req.op = "costs"
    /\ resp.flash = "Costs updated."
    /\ \E i \in 1..Len(Ledger) :
         LET k == Ledger[i].costs
         IN  /\ Len(k.tickets) = 2
             /\ k.tickets[1].ticket_number = <<"7">>
             /\ k.tickets[2].state = <<"T">>
             /\ k.tickets[2] = Citation(req.form)
             /\ k.gas = F(0)

\* C6: loading from a missing or a corrupted store gives the empty
\* collection and raises nothing.
C6_LoadOfBadStoreIsEmpty ==
    (req.op = "api_trips" /\ file.kind \in {"missing", "unparseable", "undecodable"})
        => resp = Response("200", "", <<>>)

\* The same, for a missing store and for text that is not JSON
C6_LoadOfMissingOrNonJsonIsEmpty ==
    (req.op = "api_trips" /\ file.kind \in {"missing", "unparseable"})
        => resp = Response("200", "", <<>>)

\* Every leg of the submission was answered with a distance
LegsResolved(form, answers) ==
    /\ UsesOrs(orsKey, form)
    /\ Len(answers) = LegCount(form)
    /\ \A i \in 1..Len(answers) : answers[i].route = "ok"

RECURSIVE SumAnswered(_)
SumAnswered(answers) ==
    IF answers = <<>> THEN 0
    ELSE MetersToMiles(Head(answers).meters) + SumAnswered(Tail(answers))

\* The final one-way distance of a submission, before rounding: the
\* resolved legs or the manual miles, plus the extra stop miles
ReferenceOneWay(form, answers) ==
    FAdd(IF LegsResolved(form, answers) THEN F(SumAnswered(answers))
         ELSE Submitted(form.manual_one_way_miles),
         Submitted(form.manual_stop_miles))

\* stored is x rounded to a multiple of unit (NaN stays NaN)
IsRounded(stored, x, unit) ==
    IF x.nan THEN stored.nan
    ELSE /\ ~stored.nan
         /\ stored.v % unit = 0
         /\ 2 * (stored.v - x.v) <= unit
         /\ 2 * (x.v - stored.v) <= unit

\* C7: the stored one_way_miles is base + extra miles on both paths,
\* total_miles is twice that for a round trip and that otherwise,
\* reimbursement is total miles times the rate, each rounded to 2 decimals
\* once, from the unrounded value.
C7_StoredFieldsMatchReference ==
    Saved =>
        LET x == ReferenceOneWay(req.form, req.answers)
            total == IF NewTrip.trip_type = "roundtrip" THEN FAdd(x, x) ELSE x
            rate == IF req.page.t = "cents" THEN req.page.cents ELSE 70
            money == IF total.nan THEN NaN ELSE F(total.v * rate)
        IN  /\ IsRounded(NewTrip.one_way_miles, x, 10)
            /\ IsRounded(NewTrip.total_miles, total, 10)
            /\ IsRounded(NewTrip.reimbursement, money, 1000)
            /\ NewTrip.irs_business_rate = rate

\* One-way 10 miles, 1.5 extra, one way, rate 0.70: 11.5, 11.5 and 8.05
C7_Witness ==
    /\ Saved
    /\ req.form.manual_one_way_miles = RawNum(10000)
    /\ req.form.manual_stop_miles = RawNum(1500)
    /\ NewTrip.trip_type = "one_way"
    /\ NewTrip.irs_business_rate = 70
    /\ NewTrip.distance_source = "manual"
    /\ NewTrip.one_way_miles = F(11500)
    /\ NewTrip.total_miles = F(11500)
    /\ NewTrip.reimbursement = F(805000)

\* A round trip over resolved legs, with extra miles added
C7_WitnessResolved ==
    /\ Saved
    /\ LegsResolved(req.form, req.answers)
    /\ NewTrip.distance_source = "openrouteservice"
    /\ Len(NewTrip.distance_legs) = 2
    /\ req.form.manual_stop_miles = RawNum(1500)
    /\ NewTrip.trip_type = "roundtrip"
    /\ NewTrip.total_miles = F(33000)

\* Both addresses given and a final one-way distance above zero
ValidSubmission(form, answers) ==
    /\ Strip(form.start_address) # <<>>
    /\ Strip(form.end_address) # <<>>
    /\ Positive(ReferenceOneWay(form, answers))

\* C8: a submission is appended only if both addresses are non-empty and
\* its final one-way distance is strictly greater than zero; one that is
\* answered and fails either test is turned away with a message and the
\* ledger is left as it was.
C8_OnlyValidSubmissionsAppended ==
    [][StepOf("mileage") =>
          /\ resp'.flash = "Trip saved." => ValidSubmission(req'.form, req'.answers)
          /\ (resp'.status # "500" /\ ~ValidSubmission(req'.form, req'.answers)) =>
                /\ resp'.status = "redirect:mileage"
                /\ resp'.flash # ""
                /\ file' = file]_vars

\* The same, for submissions whose miles are numbers
C8_OnlyValidNumbersAppended ==
    [][(StepOf("mileage")
        /\ req'.form.manual_one_way_miles.t # "nan"
        /\ req'.form.manual_stop_miles.t # "nan") =>
          /\ resp'.flash = "Trip saved." => ValidSubmission(req'.form, req'.answers)
          /\ (resp'.status # "500" /\ ~ValidSubmission(req'.form, req'.answers)) =>
                /\ resp'.status = "redirect:mileage"
                /\ resp'.flash # ""
                /\ file' = file]_vars

NonCost(trip) == [trip EXCEPT !.costs = NewCosts]

\* C9: every trip keeps its place and its non-cost fields; an amendment
\* changes only the costs of the first trip in storage order with the
\* submitted created_at, also when several trips share it.
C9_OnlyCostsOfFirstMatchChange ==
    [][/\ Len(LedgerAfter) >= Len(Ledger)
       /\ \A i \in 1..Len(Ledger) : NonCost(LedgerAfter[i]) = NonCost(Ledger[i])
       /\ StepOf("costs") =>
            /\ Len(LedgerAfter) = Len(Ledger)
            /\ \A i \in 1..Len(Ledger) :
                 (NoMatch(Ledger, req'.form) \/ i # FirstMatch(Ledger, req'.form))
                    => LedgerAfter[i] = Ledger[i]]_vars

\* Two trips share created_at; the amendment reached the first, not the second
C9_Witness ==
    /\ req.op = "costs"
    /\ resp.flash = "Costs updated."
    /\ Len(Ledger) = 2
    /\ Ledger[1].created_at = Ledger[2].created_at
    /\ Ledger[1].created_at = req.form.created_at
    /\ Ledger[1].costs.tickets = <<Citation(req.form)>>
    /\ Ledger[2].costs = NewCosts

\* C10: requests that do not overlap lose no update: the ledger is the
\* ledger with every reported change applied in the order reported.  (That
\* overlapping requests can lose one is C10_Witness.)
C10_NoLossWithoutOverlap == ~overlapped => Ledger = ideal

\* Both requests reported success, and the trip the first writer appended is
\* gone: the second writer wrote its own snapshot back
C10_Witness ==
    /\ overlapped
    /\ inflight[1].done = "saved"
    /\ inflight[2].done = "saved"
    /\ Len(ideal) = 2
    /\ Len(Ledger) = 1
    /\ Ledger[1] = ideal[2]
    /\ ideal[1] # ideal[2]

\* An append overlapping an amendment: the amendment is written over
C10_WitnessAppendAmend ==
    /\ overlapped
    /\ {inflight[1].done, inflight[2].done} = {"saved", "updated"}
    /\ Len(ideal) = 2
    /\ Len(Ledger) = 2
    /\ ideal[1].costs.tickets # <<>>
    /\ Ledger[1].costs = NewCosts

\* Two amendments of one trip overlapping: one citation is lost
C10_WitnessAmendAmend ==
    /\ overlapped
    /\ inflight[1].done = "updated"
    /\ inflight[2].done = "updated"
    /\ Len(ideal) = 1
    /\ Len(Ledger) = 1
    /\ Len(ideal[1].costs.tickets) = 2
    /\ Len(Ledger[1].costs.tickets) = 1

====
